---------------------------- MODULE Spec2Model ----------------------------
(***************************************************************************)
(* The pricing / curve-adjustment core of the vAMM (sdk/src/math/amm.ts,   *)
(* here src/unnamed/part_000): swap simulation, repeg decision, AMM state  *)
(* update, spread calculation, spread-adjusted reserves and bid/ask price. *)
(*                                                                         *)
(* All functions of the source are pure; each is an operator here, and     *)
(* each specification draws the arguments from bounded sets in its Init    *)
(* and applies the functions in its actions.                               *)
(*                                                                         *)
(* BN (bn.js) is an arbitrary-precision integer whose div truncates toward *)
(* zero and throws on a zero divisor; JavaScript numbers (the spreads) are *)
(* modelled as exact rationals <<numerator, denominator>>.  A thrown       *)
(* exception is the result [abort |-> TRUE].                               *)
(*                                                                         *)
(* The numeric constants of ../constants/numericConstants are not part of  *)
(* the source given; they keep their relations (a price unit is            *)
(* MARK_PRICE_PRECISION / PEG_PRECISION, the spread cap is                 *)
(* BID_ASK_SPREAD_PRECISION / 50) at magnitudes a model checker can        *)
(* enumerate.                                                              *)
(***************************************************************************)
EXTENDS Integers, Sequences, FiniteSets, TLC

VARIABLES
    amm,              \* the AMM account value handed to the call
    oraclePriceData,  \* [price |-> ...]
    repeg,            \* what the ./repeg collaborators answer for this amm
    sim,              \* a swap simulation threaded through calculateSwapOutput
    pc,               \* "ready", then the name of the function that has run
    ret               \* what it returned

vars == <<amm, oraclePriceData, repeg, sim, pc, ret>>

-----------------------------------------------------------------------------
(* numericConstants (scaled)                                               *)

PEG_PRECISION == 10
MARK_PRICE_PRECISION == 100
BID_ASK_SPREAD_PRECISION == 1000
QUOTE_PRECISION == 10
AMM_RESERVE_PRECISION == 100
AMM_TO_QUOTE_PRECISION_RATIO == AMM_RESERVE_PRECISION \div QUOTE_PRECISION
AMM_TIMES_PEG_TO_QUOTE_PRECISION_RATIO ==
    (AMM_RESERVE_PRECISION * PEG_PRECISION) \div QUOTE_PRECISION

-----------------------------------------------------------------------------
(* bn.js and JavaScript number arithmetic                                  *)

Abs(x) == IF x < 0 THEN -x ELSE x

Max(a, b) == IF a >= b THEN a ELSE b

\* BN.div: truncation toward zero; the divisor is non-zero here, the callers
\* test for zero first (bn.js throws).
BNdiv(a, b) ==
    IF (a >= 0) = (b > 0) THEN Abs(a) \div Abs(b) ELSE -(Abs(a) \div Abs(b))

RECURSIVE Gcd(_, _)
Gcd(a, b) == IF b = 0 THEN a ELSE Gcd(b, a % b)

\* A JavaScript number as an exact rational in lowest terms, denominator > 0.
Rat(n, d) ==
    LET s == IF d < 0 THEN -1 ELSE 1
        g == Gcd(Abs(n), Abs(d))
    IN  <<(s * n) \div g, (s * d) \div g>>

RatInt(n) == <<n, 1>>
RatLt(x, y) == x[1] * y[2] < y[1] * x[2]
RatLe(x, y) == x[1] * y[2] <= y[1] * x[2]
RatMax(x, y) == IF RatLt(x, y) THEN y ELSE x
RatMin(x, y) == IF RatLt(y, x) THEN y ELSE x
RatAdd(x, y) == Rat(x[1] * y[2] + y[1] * x[2], x[2] * y[2])
RatMul(x, y) == Rat(x[1] * y[1], x[2] * y[2])
RatDiv(x, y) == Rat(x[1] * y[2], x[2] * y[1])
RatIsZero(x) == x[1] = 0

\* new BN(number): the fraction is dropped (toward zero).
BNofNumber(x) == BNdiv(x[1], x[2])

Aborted == [abort |-> TRUE]

\* const x = e: Const({body(x) : x \in {e}}) is body with x naming the value of
\* e, computed once
Const(S) == CHOOSE x \in S : TRUE

-----------------------------------------------------------------------------
(* Swap simulator                                                          *)

SwapDirections == {"add", "remove"}
PositionDirections == {"long", "short"}
AssetTypes == {"base", "quote"}

calculateSwapOutputRemoveAdds(inputAssetReserve, swapAmount, swapDirection, invariant) ==
    LET newInputAssetReserve == inputAssetReserve + swapAmount
    IN  IF newInputAssetReserve = 0 THEN Aborted
        ELSE [abort |-> FALSE,
              newInput |-> newInputAssetReserve,
              newOutput |-> BNdiv(invariant, newInputAssetReserve)]

calculateSwapOutput(inputAssetReserve, swapAmount, swapDirection, invariant) ==
    LET newInputAssetReserve ==
            IF swapDirection = "add"
            THEN inputAssetReserve + swapAmount
            ELSE inputAssetReserve - swapAmount
    IN  IF newInputAssetReserve = 0 THEN Aborted
        ELSE [abort |-> FALSE,
              newInput |-> newInputAssetReserve,
              newOutput |-> BNdiv(invariant, newInputAssetReserve)]

getSwapDirection(inputAssetType, positionDirection) ==
    IF positionDirection = "long" /\ inputAssetType = "base" THEN "remove"
    ELSE IF positionDirection = "short" /\ inputAssetType = "quote" THEN "remove"
    ELSE "add"

calculateAmmReservesAfterSwapNoAssert(a, inputAssetType, swapAmount, swapDirection) ==
    IF inputAssetType = "quote"
    THEN IF a.pegMultiplier = 0 THEN Aborted
         ELSE LET scaled == BNdiv(swapAmount * AMM_TIMES_PEG_TO_QUOTE_PRECISION_RATIO,
                                  a.pegMultiplier)
                  r == calculateSwapOutput(a.quoteAssetReserve, scaled,
                                           swapDirection, a.sqrtK * a.sqrtK)
              IN  IF r.abort THEN Aborted
                  ELSE [abort |-> FALSE,
                        newQuoteAssetReserve |-> r.newInput,
                        newBaseAssetReserve |-> r.newOutput]
    ELSE LET r == calculateSwapOutput(a.baseAssetReserve, swapAmount,
                                      swapDirection, a.sqrtK * a.sqrtK)
         IN  IF r.abort THEN Aborted
             ELSE [abort |-> FALSE,
                   newQuoteAssetReserve |-> r.newOutput,
                   newBaseAssetReserve |-> r.newInput]

calculateAmmReservesAfterSwap(a, inputAssetType, swapAmount, swapDirection) ==
    IF ~(swapAmount >= 0) THEN Aborted   \* assert(swapAmount.gte(ZERO), ...)
    ELSE IF inputAssetType = "quote"
    THEN IF a.pegMultiplier = 0 THEN Aborted
         ELSE LET scaled == BNdiv(swapAmount * AMM_TIMES_PEG_TO_QUOTE_PRECISION_RATIO,
                                  a.pegMultiplier)
                  r == calculateSwapOutput(a.quoteAssetReserve, scaled,
                                           swapDirection, a.sqrtK * a.sqrtK)
              IN  IF r.abort THEN Aborted
                  ELSE [abort |-> FALSE,
                        newQuoteAssetReserve |-> r.newInput,
                        newBaseAssetReserve |-> r.newOutput]
    ELSE LET r == calculateSwapOutput(a.baseAssetReserve, swapAmount,
                                      swapDirection, a.sqrtK * a.sqrtK)
         IN  IF r.abort THEN Aborted
             ELSE [abort |-> FALSE,
                   newQuoteAssetReserve |-> r.newOutput,
                   newBaseAssetReserve |-> r.newInput]

\* The close-out of the AMM's net inventory that calculateNewAmm, calculateUpdatedAMM
\* and calculateTerminalPrice all perform: SHORT if the inventory is positive.
closeNetBase(a, netBaseAssetAmount) ==
    LET directionToClose == IF netBaseAssetAmount > 0 THEN "short" ELSE "long"
    IN  calculateAmmReservesAfterSwap(a, "base", Abs(netBaseAssetAmount),
                                      getSwapDirection("base", directionToClose))

-----------------------------------------------------------------------------
(* ./repeg: calculateRepegCost, calculateAdjustKCost, calculateBudgetedPeg  *)
(* are consumed as opaque functions.  `repeg' holds their answers for the   *)
(* calls calculateNewAmm makes; AnswersWithin (below) draws them as the     *)
(* specification promises them.                                             *)

calculateRepegCost(r, onShrunkCopy) ==
    IF onShrunkCopy THEN r.costAtBudgetedPeg ELSE r.costAtTargetPeg

calculateAdjustKCost(r) == r.adjustKCost

calculateBudgetedPeg(r) == r.budgetedPeg

-----------------------------------------------------------------------------
(* Repeg / K-adjustment decision and the AMM state update                  *)

PRICE_DIV_PEG == MARK_PRICE_PRECISION \div PEG_PRECISION

FeeBudget(a) ==
    Max(0, a.totalFeeMinusDistributions - BNdiv(a.totalExchangeFee, 2))

TargetPegTruncates(a, o) ==
    BNdiv(BNdiv(o.price * a.baseAssetReserve, a.quoteAssetReserve), PRICE_DIV_PEG)

TargetPeg(a, o) ==
    BNdiv(BNdiv(o.price * a.baseAssetReserve, a.quoteAssetReserve)
              + BNdiv(PRICE_DIV_PEG, 2),
          PRICE_DIV_PEG)

ScaleKScalesQuote(a, pKNumer, pKDenom) ==
    LET base == BNdiv(a.baseAssetReserve * pKNumer, pKDenom)
        sqrtK == BNdiv(a.sqrtK * pKNumer, pKDenom)
    IN  IF base = 0 THEN Aborted
        ELSE [abort |-> FALSE,
              amm |-> [a EXCEPT !.baseAssetReserve = base,
                                !.sqrtK = sqrtK,
                                !.quoteAssetReserve =
                                    BNdiv(a.quoteAssetReserve * pKNumer, pKDenom)]]

\* lines 53-56 and 91-94: base and sqrtK are scaled, quote is rebuilt from them.
ScaleK(a, pKNumer, pKDenom) ==
    LET base == BNdiv(a.baseAssetReserve * pKNumer, pKDenom)
        sqrtK == BNdiv(a.sqrtK * pKNumer, pKDenom)
    IN  IF base = 0 THEN Aborted
        ELSE [abort |-> FALSE,
              amm |-> [a EXCEPT !.baseAssetReserve = base,
                                !.sqrtK = sqrtK,
                                !.quoteAssetReserve = BNdiv(sqrtK * sqrtK, base)]]

NoShrink(a, o, r) ==
    [abort |-> FALSE, cost |-> calculateRepegCost(r, FALSE),
     pKNumer |-> 1, pKDenom |-> 1, newPeg |-> TargetPeg(a, o),
     shrunk |-> FALSE, copy |-> a, budgetGiven |-> 0]

ShrinkUnasserted(a, o, r) ==
    LET deficitMadeup == calculateAdjustKCost(r)
        scaled == ScaleK(a, 999, 1000)
    IN  IF scaled.abort THEN Aborted
        ELSE LET closed == closeNetBase(scaled.amm, a.netBaseAssetAmount)
             IN  IF closed.abort THEN Aborted
                 ELSE [abort |-> FALSE,
                       cost |-> calculateRepegCost(r, TRUE),
                       pKNumer |-> 999, pKDenom |-> 1000,
                       newPeg |-> calculateBudgetedPeg(r),
                       shrunk |-> TRUE,
                       copy |-> [scaled.amm EXCEPT !.terminalQuoteAssetReserve =
                                                       closed.newQuoteAssetReserve],
                       budgetGiven |-> FeeBudget(a) + Abs(deficitMadeup)]

\* lines 47-73.  copy is the local newAmm handed to calculateBudgetedPeg and
\* calculateRepegCost, budgetGiven the budget handed to calculateBudgetedPeg.
Shrink(a, o, r) ==
    LET deficitMadeup == calculateAdjustKCost(r)
        scaled == ScaleK(a, 999, 1000)
    IN  IF ~(deficitMadeup <= 0) THEN Aborted   \* assert(deficitMadeup.lte(0))
        ELSE IF scaled.abort THEN Aborted
        ELSE LET closed == closeNetBase(scaled.amm, a.netBaseAssetAmount)
             IN  IF closed.abort THEN Aborted
                 ELSE [abort |-> FALSE,
                       cost |-> calculateRepegCost(r, TRUE),
                       pKNumer |-> 999, pKDenom |-> 1000,
                       newPeg |-> calculateBudgetedPeg(r),
                       shrunk |-> TRUE,
                       copy |-> [scaled.amm EXCEPT !.terminalQuoteAssetReserve =
                                                       closed.newQuoteAssetReserve],
                       budgetGiven |-> FeeBudget(a) + Abs(deficitMadeup)]

calculateNewAmmNoBudgetCheck(a, o, r) ==
    IF a.quoteAssetReserve = 0 THEN Aborted ELSE NoShrink(a, o, r)

calculateNewAmm(a, o, r) ==
    IF a.quoteAssetReserve = 0 THEN Aborted
    ELSE IF calculateRepegCost(r, FALSE) > FeeBudget(a)
         THEN Shrink(a, o, r)
         ELSE NoShrink(a, o, r)

calculateUpdatedAMM(a, o, r) ==
    IF a.curveUpdateIntensity = 0 THEN [abort |-> FALSE, amm |-> a]
    ELSE LET n == calculateNewAmm(a, o, r)
         IN  IF n.abort THEN Aborted
             ELSE LET scaled == ScaleK(a, n.pKNumer, n.pKDenom)
                  IN  IF scaled.abort THEN Aborted
                      ELSE LET pegged == [scaled.amm EXCEPT !.pegMultiplier = n.newPeg]
                               closed == closeNetBase(pegged, a.netBaseAssetAmount)
                           IN  IF closed.abort THEN Aborted
                               ELSE [abort |-> FALSE,
                                     amm |-> [pegged EXCEPT
                                        !.terminalQuoteAssetReserve =
                                            closed.newQuoteAssetReserve,
                                        !.totalFeeMinusDistributions =
                                            a.totalFeeMinusDistributions - n.cost]]

-----------------------------------------------------------------------------
(* Price engine and spread calculator                                      *)

MAX_INVENTORY_SKEW == 5

\* BID_ASK_SPREAD_PRECISION.toNumber() / 50, the 2% cap of the skew scale
MaxTargetSpread == Rat(BID_ASK_SPREAD_PRECISION, 50)

\* the literal 1.05
MinCappedScale == Rat(105, 100)

calculatePrice(baseAssetReserves, quoteAssetReserves, pegMultiplier) ==
    IF Abs(baseAssetReserves) <= 0 THEN 0
    ELSE BNdiv(BNdiv(quoteAssetReserves * MARK_PRICE_PRECISION * pegMultiplier,
                     PEG_PRECISION),
               baseAssetReserves)

CappedScaleNoFloor(effectiveLeverage, spread) ==
    LET spreadScale == RatMin(RatInt(MAX_INVENTORY_SKEW),
                              RatAdd(RatInt(1), effectiveLeverage))
    IN  IF RatLt(MaxTargetSpread, RatMul(spreadScale, spread))
        THEN RatDiv(MaxTargetSpread, spread)
        ELSE spreadScale

\* lines 380-386 (and 295-301): the skew scale, capped toward maxTargetSpread
\* but never below 1.05.
CappedScale(effectiveLeverage, spread) ==
    LET spreadScale == RatMin(RatInt(MAX_INVENTORY_SKEW),
                              RatAdd(RatInt(1), effectiveLeverage))
    IN  IF RatLt(MaxTargetSpread, RatMul(spreadScale, spread))
        THEN RatMax(MinCappedScale, RatDiv(MaxTargetSpread, spread))
        ELSE spreadScale

\* netBaseAssetValue, lines 361-364 and 271-274
NetBaseAssetValue(quoteAssetReserve, terminalQuoteAssetReserve, pegMultiplier) ==
    BNdiv((quoteAssetReserve - terminalQuoteAssetReserve) * pegMultiplier,
          AMM_TIMES_PEG_TO_QUOTE_PRECISION_RATIO)

\* localBaseAssetValue, lines 366-368 and 276-278
LocalBaseAssetValue(netBaseAssetAmount, markPrice) ==
    BNdiv(netBaseAssetAmount * markPrice,
          AMM_TO_QUOTE_PRECISION_RATIO * MARK_PRICE_PRECISION)

\* targetMarkSpreadPct, lines 336-339; markPrice is not zero
TargetMarkSpreadPct(markPrice, targetPrice) ==
    BNdiv((markPrice - targetPrice) * BID_ASK_SPREAD_PRECISION, markPrice)

\* lines 343-349
OracleRetreat(spread, direction, targetMarkSpreadPct) ==
    IF \/ (direction = "long" /\ targetMarkSpreadPct < 0)
       \/ (direction = "short" /\ targetMarkSpreadPct > 0)
    THEN RatMax(spread, RatInt(Abs(targetMarkSpreadPct)))
    ELSE spread

\* lines 351-389, spread being the half-spread after the oracle retreat
InventorySkew(a, direction, markPrice, spread) ==
    IF \/ (a.netBaseAssetAmount > 0 /\ direction = "long")
       \/ (a.netBaseAssetAmount < 0 /\ direction = "short")
       \/ a.totalFeeMinusDistributions = 0
    THEN LET netCostBasis == a.quoteAssetAmountLong - a.quoteAssetAmountShort
             netPnl == NetBaseAssetValue(a.quoteAssetReserve,
                                         a.terminalQuoteAssetReserve,
                                         a.pegMultiplier) - netCostBasis
             localPnl == LocalBaseAssetValue(a.netBaseAssetAmount, markPrice)
                             - netCostBasis
             effectiveLeverage ==
                 IF a.totalFeeMinusDistributions > 0
                 THEN Rat(localPnl - netPnl, a.totalFeeMinusDistributions + 1)
                 ELSE RatInt(MAX_INVENTORY_SKEW)
         IN  RatMul(spread, CappedScale(effectiveLeverage, spread))
    ELSE spread

calculateSpreadIgnoresIntensity(a, direction, o) ==
    IF a.baseSpread = 0
    THEN [abort |-> FALSE, spread |-> Rat(a.baseSpread, 2)]
    ELSE LET markPrice == calculatePrice(a.baseAssetReserve, a.quoteAssetReserve,
                                         a.pegMultiplier)
         IN  IF markPrice = 0 THEN Aborted
             ELSE [abort |-> FALSE,
                   spread |-> InventorySkew(a, direction, markPrice,
                                 OracleRetreat(Rat(a.baseSpread, 2), direction,
                                     TargetMarkSpreadPct(markPrice, o.price)))]

calculateSpread(a, direction, o) ==
    IF a.baseSpread = 0 \/ a.curveUpdateIntensity = 0
    THEN [abort |-> FALSE, spread |-> Rat(a.baseSpread, 2)]
    ELSE LET markPrice == calculatePrice(a.baseAssetReserve, a.quoteAssetReserve,
                                         a.pegMultiplier)
         IN  IF markPrice = 0 THEN Aborted    \* .div(markPrice)
             ELSE [abort |-> FALSE,
                   spread |-> InventorySkew(a, direction, markPrice,
                                 OracleRetreat(Rat(a.baseSpread, 2), direction,
                                     TargetMarkSpreadPct(markPrice, o.price)))]

\* lines 255-265 of calculateSpreadBN: <<longSpread, shortSpread>> after the retreat
RetreatBN(baseSpread, lastOracleMarkSpreadPct, lastOracleConfPct) ==
    LET half == Rat(baseSpread, 2)
        widened == RatMax(half, RatInt(Abs(lastOracleMarkSpreadPct) + lastOracleConfPct))
    IN  IF lastOracleMarkSpreadPct > 0 THEN <<half, widened>>
        ELSE IF lastOracleMarkSpreadPct < 0 THEN <<widened, half>>
        ELSE <<half, half>>

calculateSpreadBN(baseSpread, lastOracleMarkSpreadPct, lastOracleConfPct, quoteAssetReserve, terminalQuoteAssetReserve, pegMultiplier, netBaseAssetAmount, markPrice, totalFeeMinusDistributions) ==
    LET pre == RetreatBN(baseSpread, lastOracleMarkSpreadPct, lastOracleConfPct)
        effectiveLeverage ==
            RatAdd(Rat(LocalBaseAssetValue(netBaseAssetAmount, markPrice)
                         - NetBaseAssetValue(quoteAssetReserve,
                                             terminalQuoteAssetReserve, pegMultiplier),
                       totalFeeMinusDistributions + 1),
                   Rat(1, QUOTE_PRECISION))
    IN  IF totalFeeMinusDistributions > 0
        THEN IF netBaseAssetAmount > 0
             THEN <<RatMul(pre[1], CappedScale(effectiveLeverage, pre[1])), pre[2]>>
             ELSE <<pre[1], RatMul(pre[2], CappedScale(effectiveLeverage, pre[2]))>>
        ELSE <<RatMul(pre[1], RatInt(MAX_INVENTORY_SKEW)),
               RatMul(pre[2], RatInt(MAX_INVENTORY_SKEW))>>

\* lines 411-426, for a non-zero spread
ShiftedReserves(a, direction, spread) ==
    LET half == BNofNumber(RatDiv(spread, RatInt(2)))
        divisor == IF half = 0 THEN 0
                   ELSE BNdiv(BID_ASK_SPREAD_PRECISION, half)
        quoteAsserReserveDelta ==
            IF divisor = 0 THEN 0 ELSE BNdiv(a.quoteAssetReserve, divisor)
        quoteAssetReserve ==
            IF direction = "long"
            THEN a.quoteAssetReserve + quoteAsserReserveDelta
            ELSE a.quoteAssetReserve - quoteAsserReserveDelta
    IN  IF half = 0 \/ divisor = 0 \/ quoteAssetReserve = 0
        THEN Aborted     \* BN division by zero
        ELSE [abort |-> FALSE, spread |-> spread,
              delta |-> quoteAsserReserveDelta,
              baseAssetReserve |-> BNdiv(a.sqrtK * a.sqrtK, quoteAssetReserve),
              quoteAssetReserve |-> quoteAssetReserve]

calculateSpreadReserves(a, direction, o) ==
    Const({IF s.abort THEN Aborted
           ELSE IF RatIsZero(s.spread)
           THEN [abort |-> FALSE, spread |-> s.spread, delta |-> 0,
                 baseAssetReserve |-> a.baseAssetReserve,
                 quoteAssetReserve |-> a.quoteAssetReserve]
           ELSE ShiftedReserves(a, direction, s.spread)
           : s \in {calculateSpread(a, direction, o)}})

calculateUpdatedAMMSpreadReserves(a, direction, o, r) ==
    Const({IF u.abort THEN Aborted
           ELSE Const({IF dirReserves.abort THEN Aborted
                       ELSE [abort |-> FALSE,
                             baseAssetReserve |-> dirReserves.baseAssetReserve,
                             quoteAssetReserve |-> dirReserves.quoteAssetReserve,
                             sqrtK |-> u.amm.sqrtK,
                             newPeg |-> u.amm.pegMultiplier,
                             spread |-> dirReserves.spread,
                             updated |-> u.amm]
                       : dirReserves \in {calculateSpreadReserves(u.amm, direction, o)}})
           : u \in {calculateUpdatedAMM(a, o, r)}})

calculateBidAskPrice(a, o, r) ==
    Const({IF u.abort THEN Aborted
           ELSE Const({IF askReserves.abort \/ bidReserves.abort THEN Aborted
                       ELSE [abort |-> FALSE,
                             bidPrice |-> calculatePrice(bidReserves.baseAssetReserve,
                                                         bidReserves.quoteAssetReserve,
                                                         u.amm.pegMultiplier),
                             askPrice |-> calculatePrice(askReserves.baseAssetReserve,
                                                         askReserves.quoteAssetReserve,
                                                         u.amm.pegMultiplier),
                             askSpread |-> askReserves.spread,
                             bidSpread |-> bidReserves.spread,
                             askDelta |-> askReserves.delta,
                             bidDelta |-> bidReserves.delta,
                             updated |-> u.amm]
                       : askReserves \in {calculateSpreadReserves(u.amm, "long", o)},
                         bidReserves \in {calculateSpreadReserves(u.amm, "short", o)}})
           : u \in {calculateUpdatedAMM(a, o, r)}})

-----------------------------------------------------------------------------
(* The AMM values and arguments the functions are applied to               *)

\* An AMM account as the program keeps it: quoteAssetReserve rebuilt from the
\* invariant, terminalQuoteAssetReserve the quote reserve after closing the
\* net inventory.
MkAmm(base, sqrtK, peg, net, tfmd, tef, baseSpread, cui, costLong) ==
    LET a == [baseAssetReserve |-> base,
              quoteAssetReserve |-> BNdiv(sqrtK * sqrtK, base),
              sqrtK |-> sqrtK,
              pegMultiplier |-> peg,
              netBaseAssetAmount |-> net,
              terminalQuoteAssetReserve |-> 0,
              totalExchangeFee |-> tef,
              totalFeeMinusDistributions |-> tfmd,
              baseSpread |-> baseSpread,
              curveUpdateIntensity |-> cui,
              quoteAssetAmountLong |-> costLong,
              quoteAssetAmountShort |-> 0]
    IN  [a EXCEPT !.terminalQuoteAssetReserve =
                      closeNetBase(a, net).newQuoteAssetReserve]

NoRepeg == [costAtTargetPeg |-> 0, adjustKCost |-> 0, budgetedPeg |-> PEG_PRECISION,
            costAtBudgetedPeg |-> 0]
NoSim == [swapAmount |-> 0, swapDirection |-> "add", inputAssetType |-> "base",
          direction |-> "long"]
NoRet == [abort |-> FALSE]
NoOracle == [price |-> MARK_PRICE_PRECISION, confidence |-> 0]

Invariant(a) == a.sqrtK * a.sqrtK

-----------------------------------------------------------------------------
(* SpecSwap: calculateSwapOutput and calculateAmmReservesAfterSwap         *)

MaxSwapReserve == 6    \* baseAssetReserve is 1..MaxSwapReserve
MaxSwapSqrtK == 6      \* sqrtK is 1..MaxSwapSqrtK
MaxSwap == 3           \* swapAmount is -MaxSwap..MaxSwap

InitSwap ==
    /\ \E base \in 1..MaxSwapReserve, sqrtK \in 1..MaxSwapSqrtK,
          peg \in {PEG_PRECISION \div 2, PEG_PRECISION} :
         /\ base <= sqrtK * sqrtK       \* both reserves are positive
         /\ amm = MkAmm(base, sqrtK, peg, 0, 0, 0, 0, 0, 0)
    /\ oraclePriceData = NoOracle
    /\ repeg = NoRepeg
    /\ \E amount \in (-MaxSwap)..MaxSwap, d \in SwapDirections, t \in AssetTypes :
         sim = [NoSim EXCEPT !.swapAmount = amount, !.swapDirection = d,
                             !.inputAssetType = t]
    /\ pc = "ready"
    /\ ret = NoRet

\* calculateSwapOutput on the base side of the pool
CalculateSwapOutput ==
    /\ pc = "ready"
    /\ pc' = "calculateSwapOutput"
    /\ ret' = calculateSwapOutput(amm.baseAssetReserve, sim.swapAmount,
                                  sim.swapDirection, Invariant(amm))
    /\ UNCHANGED <<amm, oraclePriceData, repeg, sim>>

\* the same amount swapped back out of the reserves an ADD returned
SwapBack ==
    /\ pc = "calculateSwapOutput"
    /\ sim.swapDirection = "add"
    /\ ~ret.abort
    /\ pc' = "swapBack"
    /\ ret' = calculateSwapOutput(ret.newInput, sim.swapAmount, "remove",
                                  Invariant(amm))
    /\ UNCHANGED <<amm, oraclePriceData, repeg, sim>>

CalculateAmmReservesAfterSwap ==
    /\ pc = "ready"
    /\ pc' = "calculateAmmReservesAfterSwap"
    /\ ret' = calculateAmmReservesAfterSwap(amm, sim.inputAssetType, sim.swapAmount,
                                            sim.swapDirection)
    /\ UNCHANGED <<amm, oraclePriceData, repeg, sim>>

NextSwap == CalculateSwapOutput \/ SwapBack \/ CalculateAmmReservesAfterSwap

SpecSwap == InitSwap /\ [][NextSwap]_vars

NewInputReserve ==
    IF sim.swapDirection = "add"
    THEN amm.baseAssetReserve + sim.swapAmount
    ELSE amm.baseAssetReserve - sim.swapAmount

\* C5 as claimed: a negative swapAmount makes calculateSwapOutput and
\* calculateAmmReservesAfterSwap abort; neither returns a reserve pair.
C5_NegativeSwapAmountFatal ==
    (/\ pc \in {"calculateSwapOutput", "calculateAmmReservesAfterSwap"}
     /\ sim.swapAmount < 0)
    => ret.abort

\* C5 as amended: only calculateAmmReservesAfterSwap checks the amount and aborts
\* on a negative one, for either input asset; calculateSwapOutput checks nothing
\* and, unless the new input reserve is zero, returns the pair of the swap of
\* |swapAmount| in the opposite direction.
C5_OnlyReservesAfterSwapAsserts ==
    /\ (pc = "calculateAmmReservesAfterSwap" /\ sim.swapAmount < 0) => ret.abort
    /\ (pc = "calculateSwapOutput" /\ sim.swapAmount < 0)
       => IF NewInputReserve = 0 THEN ret.abort
          ELSE /\ ~ret.abort
               /\ ret.newInput = (IF sim.swapDirection = "add"
                                  THEN amm.baseAssetReserve - Abs(sim.swapAmount)
                                  ELSE amm.baseAssetReserve + Abs(sim.swapAmount))
               /\ ret.newOutput = BNdiv(Invariant(amm), ret.newInput)

C5_Witness ==
    /\ pc = "calculateAmmReservesAfterSwap"
    /\ sim.swapAmount < 0
    /\ sim.inputAssetType = "quote"
    /\ ret.abort

\* C6: for swapAmount >= 0 and a positive new input reserve, calculateSwapOutput
\* returns newInput * newOutput <= invariant < newInput * (newOutput + 1) (the
\* floor division loses less than one unit of output); and an ADD followed by a
\* REMOVE of the same amount returns the input reserve exactly and the output
\* reserve within one unit of the starting reserves, the starting output reserve
\* being the one the invariant gives for the starting input reserve.
C6_FloorSlackAndRoundTrip ==
    /\ (pc = "calculateSwapOutput" /\ sim.swapAmount >= 0 /\ NewInputReserve > 0)
       => /\ ~ret.abort
          /\ ret.newInput = NewInputReserve
          /\ ret.newInput * ret.newOutput <= Invariant(amm)
          /\ Invariant(amm) < ret.newInput * (ret.newOutput + 1)
    /\ (pc = "swapBack" /\ sim.swapAmount >= 0)
       => /\ ~ret.abort
          /\ ret.newInput = amm.baseAssetReserve
          /\ Abs(ret.newOutput - amm.quoteAssetReserve) <= 1

C6_Witness ==
    /\ pc = "swapBack"
    /\ sim.swapAmount > 0
    /\ ~ret.abort
    /\ ret.newInput * ret.newOutput < Invariant(amm)

-----------------------------------------------------------------------------
(* SpecSpread: calculateSpread and calculateSpreadBN                       *)

MaxDepth == 1          \* sqrtK is 3000, 6000, ...
MaxSkew == 3           \* baseAssetReserve is 4/6 sqrtK, 5/6 sqrtK, ...
NetDust == 2           \* netBaseAssetAmount is 0, +-NetDust, +-10 NetDust
MaxFee == 2            \* totalFeeMinusDistributions is -1..MaxFee
MaxBaseSpread == 9     \* baseSpread is 0, 1, 4 or MaxBaseSpread

SqrtKs == {3000 * k : k \in 1..MaxDepth}
BaseReserves(sqrtK) == {(sqrtK * j) \div 6 : j \in 4..(4 + MaxSkew)}
NetAmounts == {n * u : n \in (-1)..1, u \in {NetDust, 10 * NetDust}}
Pegs == {PEG_PRECISION, 2 * PEG_PRECISION}
\* the oracle price: at the mark price, near it and far from it, on both sides
OraclePrices(a) ==
    {p \in {calculatePrice(a.baseAssetReserve, a.quoteAssetReserve, a.pegMultiplier)
               + s * d : s \in (-1)..1, d \in {5, 50}} : p > 0}
BaseSpreads == {0, 1, 4, MaxBaseSpread}

InitSpread ==
    /\ \E sqrtK \in SqrtKs, peg \in Pegs, net \in NetAmounts,
          tfmd \in (-1)..MaxFee, baseSpread \in BaseSpreads, cui \in 0..1,
          costLong \in {0, 3} :
         \E base \in BaseReserves(sqrtK) :
            /\ base + net > 0
            /\ amm = MkAmm(base, sqrtK, peg, net, tfmd, 0, baseSpread, cui, costLong)
    /\ oraclePriceData \in [price : OraclePrices(amm), confidence : 0..1]
    /\ repeg = NoRepeg
    /\ \E d \in PositionDirections : sim = [NoSim EXCEPT !.direction = d]
    /\ pc = "ready"
    /\ ret = NoRet

\* values of the call, for the properties
MarkPrice == calculatePrice(amm.baseAssetReserve, amm.quoteAssetReserve, amm.pegMultiplier)
SpreadPct == TargetMarkSpreadPct(MarkPrice, oraclePriceData.price)
HalfBaseSpread == <<amm.baseSpread, 2>>
Retreats(direction) ==
    \/ (direction = "long" /\ SpreadPct < 0)
    \/ (direction = "short" /\ SpreadPct > 0)
PreSkew(direction) ==
    IF Retreats(direction) /\ RatLt(HalfBaseSpread, <<Abs(SpreadPct), 1>>)
    THEN <<Abs(SpreadPct), 1>>
    ELSE HalfBaseSpread
RatEq(x, y) == x[1] * y[2] = y[1] * x[2]

CalculateSpread ==
    /\ pc = "ready"
    /\ pc' = "calculateSpread"
    /\ ret' = calculateSpread(amm, sim.direction, oraclePriceData)
    /\ UNCHANGED <<amm, oraclePriceData, repeg, sim>>

\* calculateSpreadBN with the account's fields, the oracle/mark spread of the
\* account and the oracle's confidence as its arguments
CalculateSpreadBN ==
    /\ pc = "ready"
    /\ MarkPrice # 0
    /\ pc' = "calculateSpreadBN"
    /\ LET r == calculateSpreadBN(amm.baseSpread, SpreadPct,
                                  oraclePriceData.confidence, amm.quoteAssetReserve,
                                  amm.terminalQuoteAssetReserve, amm.pegMultiplier,
                                  amm.netBaseAssetAmount, MarkPrice,
                                  amm.totalFeeMinusDistributions)
       IN  ret' = [abort |-> FALSE, longSpread |-> r[1], shortSpread |-> r[2]]
    /\ UNCHANGED <<amm, oraclePriceData, repeg, sim>>

NextSpread == CalculateSpread \/ CalculateSpreadBN

SpecSpread == InitSpread /\ [][NextSpread]_vars

\* C4: with baseSpread # 0 and curveUpdateIntensity # 0, a half-spread computed
\* for LONG with spreadPct < 0 or for SHORT with spreadPct > 0 is at least
\* |spreadPct|.
C4_OracleRetreatNeverReduced ==
    (/\ pc = "calculateSpread" /\ ~ret.abort
     /\ amm.baseSpread # 0 /\ amm.curveUpdateIntensity # 0
     /\ Retreats(sim.direction))
    => RatLe(<<Abs(SpreadPct), 1>>, ret.spread)

\* C8: calculateSpread returns exactly baseSpread / 2 when curveUpdateIntensity
\* is 0 or baseSpread is 0, whatever the direction, oracle price, reserves,
\* net inventory and fee balance.
C8_DisabledReturnsHalfBaseSpread ==
    (/\ pc = "calculateSpread"
     /\ (amm.curveUpdateIntensity = 0 \/ amm.baseSpread = 0))
    => /\ ~ret.abort
       /\ ret.spread[1] * 2 = amm.baseSpread * ret.spread[2]

\* the disabled case where the retreat and the skew would both have widened
C8_Witness ==
    /\ pc = "calculateSpread"
    /\ amm.curveUpdateIntensity = 0
    /\ amm.baseSpread = 1
    /\ Retreats(sim.direction)
    /\ amm.netBaseAssetAmount > 0 /\ sim.direction = "long"
    /\ ret.spread = <<1, 2>>

\* the half-spread calculateSpreadBN has for a direction before the skew
PreSkewBN(direction) ==
    IF Retreats(direction)
       /\ RatLt(HalfBaseSpread, <<Abs(SpreadPct) + oraclePriceData.confidence, 1>>)
    THEN <<Abs(SpreadPct) + oraclePriceData.confidence, 1>>
    ELSE HalfBaseSpread

Times(n, x) == <<n * x[1], x[2]>>

\* C3 as claimed: with totalFeeMinusDistributions = 0 (baseSpread # 0,
\* curveUpdateIntensity # 0) the half-spread returned for LONG and for SHORT
\* is exactly 5 times its pre-skew value.
C3_ZeroFeeScalesByMaxSkew ==
    (/\ amm.totalFeeMinusDistributions = 0
     /\ amm.baseSpread # 0 /\ amm.curveUpdateIntensity # 0)
    => /\ (pc = "calculateSpread" /\ ~ret.abort)
          => RatEq(ret.spread, Times(5, PreSkew(sim.direction)))
       /\ pc = "calculateSpreadBN"
          => /\ RatEq(ret.longSpread, Times(5, PreSkewBN("long")))
             /\ RatEq(ret.shortSpread, Times(5, PreSkewBN("short")))

\* C3 as amended: calculateSpreadBN scales both half-spreads by exactly 5;
\* calculateSpread scales by exactly 5 only while 5 times the pre-skew value
\* does not exceed maxTargetSpread (BID_ASK_SPREAD_PRECISION / 50), and
\* otherwise returns the pre-skew value times max(1.05, maxTargetSpread /
\* pre-skew value), that is max(1.05 * pre-skew value, maxTargetSpread).
C3_ZeroFeeScalesByMaxSkewUpToCap ==
    (/\ amm.totalFeeMinusDistributions = 0
     /\ amm.baseSpread # 0 /\ amm.curveUpdateIntensity # 0)
    => /\ (pc = "calculateSpread" /\ ~ret.abort)
          => LET pre == PreSkew(sim.direction)
                 cap == <<BID_ASK_SPREAD_PRECISION, 50>>
             IN  IF RatLe(Times(5, pre), cap)
                 THEN RatEq(ret.spread, Times(5, pre))
                 ELSE RatEq(ret.spread,
                            RatMax(<<105 * pre[1], 100 * pre[2]>>, cap))
       /\ pc = "calculateSpreadBN"
          => /\ RatEq(ret.longSpread, Times(5, PreSkewBN("long")))
             /\ RatEq(ret.shortSpread, Times(5, PreSkewBN("short")))

\* the cap at work: 5 times the pre-skew value is above maxTargetSpread and the
\* 1.05 floor decides
C3_Witness ==
    /\ pc = "calculateSpread" /\ ~ret.abort
    /\ amm.totalFeeMinusDistributions = 0
    /\ amm.baseSpread # 0 /\ amm.curveUpdateIntensity # 0
    /\ Retreats(sim.direction)
    /\ RatLt(<<BID_ASK_SPREAD_PRECISION, 50>>, PreSkew(sim.direction))
    /\ RatEq(ret.spread, <<105 * PreSkew(sim.direction)[1],
                           100 * PreSkew(sim.direction)[2]>>)

-----------------------------------------------------------------------------
(* SpecRepeg: calculateNewAmm and calculateUpdatedAMM                      *)

MaxCost == 3           \* calculateRepegCost answers -1..MaxCost
MaxSurplus == 2        \* calculateAdjustKCost answers -MaxSurplus..1

\* netBaseAssetAmount: none, dust, a position, and all of the base reserve
\* that is left after a 999/1000 shrink
RepegNets(base) == {0, NetDust, -NetDust, 10 * NetDust, -((base * 999) \div 1000)}

\* What ./repeg may answer for the account a and the oracle price o: repegCost
\* is 0 for a peg that does not move, and the peg calculateBudgetedPeg returns
\* costs no more than the budget it was given.  calculateAdjustKCost may
\* break its contract (answer > 0): calculateNewAmm asserts it.  The answers
\* of the depth-shrink path are drawn only where that path is taken.
AnswersWithin(a, o, targetCosts, adjustCosts, budgetedCosts) ==
    LET free == IF TargetPeg(a, o) = a.pegMultiplier THEN {0} ELSE targetCosts
    IN  UNION {
          IF c > FeeBudget(a)
          THEN {r \in [costAtTargetPeg : {c}, adjustKCost : adjustCosts,
                       budgetedPeg : Pegs, costAtBudgetedPeg : budgetedCosts] :
                   /\ r.costAtBudgetedPeg <= FeeBudget(a) + Abs(r.adjustKCost)
                   /\ (r.budgetedPeg = a.pegMultiplier) => (r.costAtBudgetedPeg = 0)}
          ELSE {[NoRepeg EXCEPT !.costAtTargetPeg = c]}
          : c \in free }

RepegAnswers(a, o) ==
    AnswersWithin(a, o, (-1)..MaxCost, (-MaxSurplus)..1,
                  (-1)..(MaxCost + MaxSurplus))

InitRepeg ==
    /\ \E sqrtK \in SqrtKs, peg \in Pegs, tfmd \in (-1)..MaxFee, tef \in {0, 2} :
         \E base \in BaseReserves(sqrtK) :
            \E net \in RepegNets(base) :
               amm = MkAmm(base, sqrtK, peg, net, tfmd, tef, 4, 1, 0)
    /\ \E p \in OraclePrices(amm) : oraclePriceData = [price |-> p, confidence |-> 0]
    /\ repeg \in RepegAnswers(amm, oraclePriceData)
    /\ sim = NoSim
    /\ pc = "ready"
    /\ ret = NoRet

CalculateNewAmm ==
    /\ pc = "ready"
    /\ pc' = "calculateNewAmm"
    /\ ret' = calculateNewAmm(amm, oraclePriceData, repeg)
    /\ UNCHANGED <<amm, oraclePriceData, repeg, sim>>

CalculateUpdatedAMM ==
    /\ pc = "ready"
    /\ pc' = "calculateUpdatedAMM"
    /\ ret' = calculateUpdatedAMM(amm, oraclePriceData, repeg)
    /\ UNCHANGED <<amm, oraclePriceData, repeg, sim>>

NextRepeg == CalculateNewAmm \/ CalculateUpdatedAMM

SpecRepeg == InitRepeg /\ [][NextRepeg]_vars

Budget == IF amm.totalFeeMinusDistributions - (amm.totalExchangeFee \div 2) > 0
          THEN amm.totalFeeMinusDistributions - (amm.totalExchangeFee \div 2)
          ELSE 0
InsufficientBudget == repeg.costAtTargetPeg > Budget
SpentOnRepeg == amm.totalFeeMinusDistributions - ret.amm.totalFeeMinusDistributions

\* C1 as claimed: with the collaborators within their contracts, the cost
\* calculateUpdatedAMM subtracts from totalFeeMinusDistributions is at most
\* the fee budget of the input state, on both paths.
C1_RepegCostWithinFeeBudget ==
    (/\ pc = "calculateUpdatedAMM" /\ ~ret.abort
     /\ amm.curveUpdateIntensity # 0)
    => SpentOnRepeg <= Budget

\* C1 as amended: the cost subtracted is at most the fee budget on the
\* no-shrink path, and on the depth-shrink path at most the fee budget plus
\* the surplus |adjustKCost(state, 999, 1000)| of the shrink, which is the
\* budget handed to calculateBudgetedPeg.
C1_RepegCostWithinBudgetPlusShrinkSurplus ==
    (/\ pc = "calculateUpdatedAMM" /\ ~ret.abort
     /\ amm.curveUpdateIntensity # 0)
    => IF InsufficientBudget
       THEN /\ repeg.adjustKCost <= 0
            /\ SpentOnRepeg <= Budget - repeg.adjustKCost
       ELSE SpentOnRepeg <= Budget

\* the shrink path spending the budget and all of the shrink's surplus
C1_Witness ==
    /\ pc = "calculateUpdatedAMM" /\ ~ret.abort
    /\ amm.curveUpdateIntensity # 0
    /\ InsufficientBudget
    /\ repeg.adjustKCost < 0
    /\ Budget > 0
    /\ SpentOnRepeg = Budget - repeg.adjustKCost

\* C2: whenever repegCost(state, targetPeg) <= budget, calculateNewAmm returns
\* exactly (repegCost(state, targetPeg), 1, 1, targetPeg), targetPeg being
\* (oraclePrice * baseAssetReserve / quoteAssetReserve + halfUnit) / unit, and
\* builds no shrunk copy.
C2_SufficientBudgetReturnsTargetPeg ==
    (pc = "calculateNewAmm" /\ ~InsufficientBudget)
    => /\ ~ret.abort
       /\ ret.cost = repeg.costAtTargetPeg
       /\ ret.pKNumer = 1 /\ ret.pKDenom = 1
       /\ ret.newPeg =
            ((oraclePriceData.price * amm.baseAssetReserve) \div amm.quoteAssetReserve
                + (MARK_PRICE_PRECISION \div PEG_PRECISION) \div 2)
              \div (MARK_PRICE_PRECISION \div PEG_PRECISION)
       /\ ~ret.shrunk

\* the half unit added before the division decides the peg
C2_Witness ==
    /\ pc = "calculateNewAmm" /\ ~InsufficientBudget /\ ~ret.abort
    /\ ret.newPeg # amm.pegMultiplier
    /\ ret.newPeg # ((oraclePriceData.price * amm.baseAssetReserve)
                        \div amm.quoteAssetReserve)
                      \div (MARK_PRICE_PRECISION \div PEG_PRECISION)
    /\ ret.cost # 0

ShrunkBase == (amm.baseAssetReserve * 999) \div 1000
ShrunkSqrtK == (amm.sqrtK * 999) \div 1000

\* the 4-tuple and the shrunk copy C9 describes
ShrinkResultAsClaimed ==
    /\ ret.pKNumer = 999 /\ ret.pKDenom = 1000
    /\ ret.shrunk
    /\ ret.copy.baseAssetReserve = ShrunkBase
    /\ ret.copy.sqrtK = ShrunkSqrtK
    /\ ret.copy.quoteAssetReserve = (ShrunkSqrtK * ShrunkSqrtK) \div ShrunkBase
    /\ ret.copy.terminalQuoteAssetReserve =
          BNdiv(ShrunkSqrtK * ShrunkSqrtK, ShrunkBase + amm.netBaseAssetAmount)
    /\ ret.budgetGiven = Budget + Abs(repeg.adjustKCost)
    /\ ret.newPeg = repeg.budgetedPeg
    /\ ret.cost = repeg.costAtBudgetedPeg

\* C9 as claimed: on the insufficient-budget path calculateNewAmm aborts
\* exactly when adjustKCost(state, 999, 1000) > 0, and otherwise returns
\* (repegCost(shrunk, newPeg), 999, 1000, newPeg) for the shrunk copy.
C9_ShrinkAbortsOnlyOnPositiveAdjustKCost ==
    (pc = "calculateNewAmm" /\ InsufficientBudget)
    => /\ ret.abort <=> (repeg.adjustKCost > 0)
       /\ ~ret.abort => ShrinkResultAsClaimed

\* C9 as amended: it aborts when adjustKCost(state, 999, 1000) > 0 and also
\* when the close-out against the shrunk copy divides by zero (the shrunk base
\* reserve, or the shrunk base reserve plus the net inventory, is zero);
\* otherwise it returns the 4-tuple as claimed.
C9_ShrinkAbortsOnAdjustKCostOrZeroReserve ==
    (pc = "calculateNewAmm" /\ InsufficientBudget)
    => /\ ret.abort <=> \/ repeg.adjustKCost > 0
                        \/ ShrunkBase = 0
                        \/ ShrunkBase + amm.netBaseAssetAmount = 0
       /\ ~ret.abort => ShrinkResultAsClaimed

\* a shrink that returns, with inventory closed against the shrunk copy
C9_Witness ==
    /\ pc = "calculateNewAmm" /\ InsufficientBudget /\ ~ret.abort
    /\ repeg.adjustKCost < 0
    /\ amm.netBaseAssetAmount < 0
    /\ ret.copy.terminalQuoteAssetReserve > ret.copy.quoteAssetReserve
    /\ ret.newPeg # amm.pegMultiplier

-----------------------------------------------------------------------------
(* SpecQuote: the quoting pipeline, calculateUpdatedAMM followed by         *)
(* calculateSpreadReserves and calculatePrice                              *)

\* the pools of SpecSpread and a pool of dust-sized reserves
QuoteSqrtKs == SqrtKs \cup {30}

QuoteAnswers(a, o) == AnswersWithin(a, o, 0..1, {-1, 0}, 0..1)

InitQuote ==
    /\ \E sqrtK \in QuoteSqrtKs, peg \in Pegs, tfmd \in (-1)..MaxFee,
          net \in NetAmounts, baseSpread \in BaseSpreads, cui \in 0..1 :
         \E base \in BaseReserves(sqrtK) :
            /\ base + net > 0
            /\ amm = MkAmm(base, sqrtK, peg, net, tfmd, 0, baseSpread, cui, 0)
    /\ \E p \in OraclePrices(amm) : oraclePriceData = [price |-> p, confidence |-> 0]
    /\ repeg \in QuoteAnswers(amm, oraclePriceData)
    /\ sim = NoSim
    /\ pc = "ready"
    /\ ret = NoRet

CalculateUpdatedAMMSpreadReserves ==
    /\ pc = "ready"
    /\ pc' = "calculateUpdatedAMMSpreadReserves"
    /\ \E d \in PositionDirections :
         /\ sim' = [sim EXCEPT !.direction = d]
         /\ ret' = calculateUpdatedAMMSpreadReserves(amm, d, oraclePriceData, repeg)
    /\ UNCHANGED <<amm, oraclePriceData, repeg>>

CalculateBidAskPrice ==
    /\ pc = "ready"
    /\ pc' = "calculateBidAskPrice"
    /\ ret' = calculateBidAskPrice(amm, oraclePriceData, repeg)
    /\ UNCHANGED <<amm, oraclePriceData, repeg, sim>>

NextQuote ==
    \/ CalculateNewAmm
    \/ CalculateUpdatedAMM
    \/ CalculateUpdatedAMMSpreadReserves
    \/ CalculateBidAskPrice

SpecQuote == InitQuote /\ [][NextQuote]_vars

QuoteFromBase(sqrtK, base, quote) == (sqrtK * sqrtK) \div base = quote
BaseFromQuote(sqrtK, base, quote) == (sqrtK * sqrtK) \div quote = base

\* C7 as claimed: floor(sqrtK^2 / baseAssetReserve) = quoteAssetReserve holds
\* for the state calculateUpdatedAMM returns (curveUpdateIntensity # 0), for
\* the shrunk copy built inside calculateNewAmm, and for the pair the
\* spread-adjusted reserve projection returns, in both directions.
C7_QuoteRebuiltFromInvariant ==
    /\ (pc = "calculateUpdatedAMM" /\ ~ret.abort /\ amm.curveUpdateIntensity # 0)
       => QuoteFromBase(ret.amm.sqrtK, ret.amm.baseAssetReserve,
                        ret.amm.quoteAssetReserve)
    /\ (pc = "calculateNewAmm" /\ ~ret.abort /\ ret.shrunk)
       => QuoteFromBase(ret.copy.sqrtK, ret.copy.baseAssetReserve,
                        ret.copy.quoteAssetReserve)
    /\ (pc = "calculateUpdatedAMMSpreadReserves" /\ ~ret.abort)
       => QuoteFromBase(ret.sqrtK, ret.baseAssetReserve, ret.quoteAssetReserve)

\* C7 as amended: the relation holds for the updated state and for the shrunk
\* copy; the projection with a non-zero half-spread rebuilds the base reserve
\* from the shifted quote reserve, so its pair satisfies the mirrored
\* relation floor(sqrtK^2 / quoteAssetReserve) = baseAssetReserve, and with a
\* zero half-spread it returns the reserves of the updated state unchanged.
C7_RebuiltSideFollowsInvariant ==
    /\ (pc = "calculateUpdatedAMM" /\ ~ret.abort /\ amm.curveUpdateIntensity # 0)
       => QuoteFromBase(ret.amm.sqrtK, ret.amm.baseAssetReserve,
                        ret.amm.quoteAssetReserve)
    /\ (pc = "calculateNewAmm" /\ ~ret.abort /\ ret.shrunk)
       => QuoteFromBase(ret.copy.sqrtK, ret.copy.baseAssetReserve,
                        ret.copy.quoteAssetReserve)
    /\ (pc = "calculateUpdatedAMMSpreadReserves" /\ ~ret.abort)
       => IF ret.spread[1] # 0
          THEN BaseFromQuote(ret.sqrtK, ret.baseAssetReserve, ret.quoteAssetReserve)
          ELSE /\ ret.baseAssetReserve = ret.updated.baseAssetReserve
               /\ ret.quoteAssetReserve = ret.updated.quoteAssetReserve

\* a projection whose pair keeps only the mirrored relation, after a shrink
C7_Witness ==
    /\ pc = "calculateUpdatedAMMSpreadReserves" /\ ~ret.abort
    /\ ret.spread[1] # 0
    /\ ret.updated.baseAssetReserve < amm.baseAssetReserve
    /\ ret.quoteAssetReserve # ret.updated.quoteAssetReserve
    /\ ~QuoteFromBase(ret.sqrtK, ret.baseAssetReserve, ret.quoteAssetReserve)

UpdatedMarkPrice ==
    calculatePrice(ret.updated.baseAssetReserve, ret.updated.quoteAssetReserve,
                   ret.updated.pegMultiplier)

\* C10: whenever calculateBidAskPrice returns, bidPrice <= mark price of the
\* updated state <= askPrice.
C10_QuoteNeverCrossed ==
    (pc = "calculateBidAskPrice" /\ ~ret.abort)
    => /\ ret.bidPrice <= UpdatedMarkPrice
       /\ UpdatedMarkPrice <= ret.askPrice

=============================================================================
